---- MODULE Spec2Model ----
(***************************************************************************)
(* glizzy.py: a BLE GATT handle fuzzer.  One process: parse the command    *)
(* line, construct BLEFuzzer, discover(), fuzz(), summarize().  The device *)
(* and the gatttool transport are the environment.                         *)
(*                                                                         *)
(* Text is modelled as TLA+ strings (Len, \o and SubSeq act on them        *)
(* character by character).  An optional Python value is <<>> for None and *)
(* <<v>> for the value v.                                                  *)
(***************************************************************************)
EXTENDS Integers, Sequences, FiniteSets, TLC

(***************************************************************************)
(* Bounds of the model.                                                    *)
(***************************************************************************)
MaxHandle == 3     \* handles named on the command line are 1..MaxHandle
MaxArgs   == 2     \* at most this many -H occurrences
MaxChars  == 2     \* --chars ranges over -1..MaxChars
MaxRuns   == 2     \* --runs is unset or ranges over -1..MaxRuns
MaxPrefix == 3     \* --prefix has at most this many characters
MaxCalls  == 4     \* a process that cannot be started is one of the first MaxCalls + 1

None == <<>>
Some(v) == <<v>>
Truthy(opt) == opt # None /\ opt[1] # 0         \* Python truth of an int-or-None

(***************************************************************************)
(* Python string helpers.                                                  *)
(***************************************************************************)
Char(s, i) == SubSeq(s, i, i)

\* str.startswith
StartsWith(s, p) == Len(p) <= Len(s) /\ SubSeq(s, 1, Len(p)) = p

\* `needle in hay`
Contains(needle, hay) ==
    \E i \in 1..(Len(hay) - Len(needle) + 1) :
        SubSeq(hay, i, i + Len(needle) - 1) = needle

LowerChar(c) ==
    CASE c = "A" -> "a" [] c = "B" -> "b" [] c = "C" -> "c" [] c = "D" -> "d"
      [] c = "E" -> "e" [] c = "F" -> "f" [] c = "I" -> "i" [] c = "R" -> "r"
      [] c = "W" -> "w" [] OTHER -> c

\* str.lower
RECURSIVE Lower(_)
Lower(s) == IF Len(s) = 0 THEN ""
            ELSE LowerChar(Char(s, 1)) \o Lower(SubSeq(s, 2, Len(s)))

\* 'x' * n  (empty for n <= 0)
RECURSIVE Repeat(_, _)
Repeat(c, n) == IF n <= 0 THEN "" ELSE c \o Repeat(c, n - 1)

HexDigits == "0123456789abcdef"

HexDigitVal(c) == (CHOOSE i \in 1..16 : Char(HexDigits, i) = LowerChar(c)) - 1

\* int(s, 16): an optional 0x prefix, then hex digits of either case
RECURSIVE HexDigitsVal(_, _)
HexDigitsVal(s, acc) ==
    IF Len(s) = 0 THEN acc
    ELSE HexDigitsVal(SubSeq(s, 2, Len(s)), acc * 16 + HexDigitVal(Char(s, 1)))

IntBase16(s) ==
    IF Len(s) >= 2 /\ Lower(SubSeq(s, 1, 2)) = "0x"
    THEN HexDigitsVal(SubSeq(s, 3, Len(s)), 0)
    ELSE HexDigitsVal(s, 0)

\* format(h, 'x')
RECURSIVE HexStr(_)
HexStr(n) == IF n < 16 THEN Char(HexDigits, n + 1)
             ELSE HexStr(n \div 16) \o Char(HexDigits, (n % 16) + 1)

\* hex(h)
Hex(h) == "0x" \o HexStr(h)

\* f"0x{h:04x}"
Hex4(h) == "0x" \o Repeat("0", 4 - Len(HexStr(h))) \o HexStr(h)

\* s.split('-')
RECURSIVE Split(_, _)
Split(s, cur) ==
    IF Len(s) = 0 THEN <<cur>>
    ELSE IF Char(s, 1) = "-" THEN <<cur>> \o Split(SubSeq(s, 2, Len(s)), "")
    ELSE Split(SubSeq(s, 2, Len(s)), cur \o Char(s, 1))

parse_hex_range_sorted(s) ==
    LET parts == Split(s, "")
        a == IntBase16(parts[1])
        b == IntBase16(parts[Len(parts)])
    IN  <<[start |-> IF a <= b THEN a ELSE b, end |-> IF a <= b THEN b ELSE a]>>

parse_hex_range(s) ==
    LET parts == Split(s, "") IN
    IF Len(parts) = 1
    THEN <<[start |-> IntBase16(parts[1]), end |-> IntBase16(parts[1])]>>
    ELSE <<[start |-> IntBase16(parts[1]), end |-> IntBase16(parts[2])]>>

\* [rng for r in xs for rng in parse_hex_range(r)]
RECURSIVE Expand(_)
Expand(xs) == IF xs = <<>> THEN <<>>
              ELSE parse_hex_range(xs[1]) \o Expand(Tail(xs))

\* str.strip(), for blanks and newlines
IsBlank(ch) == ch = " " \/ ch = "\n"

RECURSIVE LStrip(_)
LStrip(s) == IF Len(s) > 0 /\ IsBlank(Char(s, 1)) THEN LStrip(SubSeq(s, 2, Len(s))) ELSE s

RECURSIVE RStrip(_)
RStrip(s) == IF Len(s) > 0 /\ IsBlank(Char(s, Len(s))) THEN RStrip(SubSeq(s, 1, Len(s) - 1)) ELSE s

Strip(s) == LStrip(RStrip(s))

(***************************************************************************)
(* The command line (argparse, lines 289-310) and the environment.         *)
(***************************************************************************)
\* values of -H / -s: "h", "0x1-0xh" and the reversed "h-1"
RangeArgs ==
    {HexStr(n) : n \in 1..MaxHandle}
      \cup {Hex(1) \o "-" \o Hex(n) : n \in 2..MaxHandle}
      \cup {HexStr(n) \o "-1" : n \in 2..MaxHandle}

RECURSIVE SeqsUpTo(_, _)
SeqsUpTo(S, n) ==
    IF n = 0 THEN {<<>>}
    ELSE LET shorter == SeqsUpTo(S, n - 1)
         IN  shorter \cup {Append(q, e) : q \in {r \in shorter : Len(r) = n - 1}, e \in S}

UuidArgs == {"18", "FF", "m"}     \* -u values; "m" begins the tag of manual ranges

Prefixes == {Repeat("a", n) : n \in 1..MaxPrefix}

\* what `gatttool --primary` prints: lines the regular expression of line 105
\* matches (its three groups) and lines it does not match
PrimaryLine(s, e, u) == [match |-> TRUE, start |-> s, end |-> e, uuid |-> u]
OtherLine == [match |-> FALSE, start |-> "", end |-> "", uuid |-> ""]

PrimaryOutputs ==
    { None,
      Some(<<>>),
      Some(<<PrimaryLine("0x0001", "0x0001", "180A")>>),
      Some(<<PrimaryLine("0x0001", "0x0001", "180A"), OtherLine,
             PrimaryLine("0x0002", Hex4(MaxHandle), "FF18")>>) }

\* what a write request answers: exit status and stdout+stderr
WrittenOk   == [code |-> 0, out |-> "Characteristic value was written successfully\n"]
BadLength   == [code |-> 0, out |-> "Characteristic Write Request failed: Attribute value length is invalid\n"]
BadHandle   == [code |-> 0, out |-> "Characteristic Write Request failed: Invalid handle\n"]
NotPermitted == [code |-> 0, out |-> "Characteristic Write Request failed: Attribute can't be written\n"]
ConnectError == [code |-> 1, out |-> "connect error: Connection refused (111)\n"]
WrittenThenError == [code |-> 1, out |-> "Characteristic value was written successfully\nconnect error\n"]

WriteResponses == {WrittenOk, BadLength, BadHandle, NotPermitted, ConnectError, WrittenThenError}

\* what a read ends with: exit status and stdout.  A read that does not get
\* through reports on stderr only.
ReadOk     == [code |-> 0, out |-> "Characteristic value/descriptor: 00 01 \n"]
ReadFailed == [code |-> 1, out |-> ""]
ReadResults == {ReadOk, ReadFailed}

\* what `timeout 5 gatttool --listen` ends with
ListenOutcomes ==
    { [code |-> 0,   out |-> "Notification handle = 0x000e value: 01 \n"],
      [code |-> 0,   out |-> "\n"],
      [code |-> 124, out |-> "Notification handle = 0x000e value: 01 \n"] }

\* keys getch() may return; "" is curses' -1, no key waiting
Keys == {"", "q", "Q", "x"}

VARIABLES
    args,           \* the parsed command line
    dev,            \* the environment: device, transport, curses module
    pc,             \* position of the process
    services, results, success_count, fail_count,   \* BLEFuzzer's state
    svc_i, h, lengths, len_i,                       \* the loops: index of svc, h, the length list, its index
    length, payload, code, resp, rb,                \* locals of the loop body and of _attempt
    c,                                              \* last key polled by _curses_fuzz
    log,            \* lines printed, in order
    ops,            \* transport calls issued, in order
    persisted,      \* content of glizzy_results.json, None while not written
    exit_code       \* exit status of the process, None while it runs

config   == <<args, dev>>
fuzzer   == <<services, results, success_count, fail_count>>
loops    == <<svc_i, h, lengths, len_i>>
locals   == <<length, payload, code, resp, rb>>
outside  == <<log, ops, persisted, exit_code>>
vars == <<args, dev, pc, services, results, success_count, fail_count,
          svc_i, h, lengths, len_i, length, payload, code, resp, rb, c,
          log, ops, persisted, exit_code>>

\* BLEFuzzer.__init__ (lines 46-60), with lines 307-310
chars_to_write == args.chars
runs           == args.runs
random_mode    == args.random
prefix         == IF args.prefix = None \/ args.prefix = Some("") THEN "" ELSE args.prefix[1]
service_ranges == Expand(args.services)
handle_ranges  == Expand(args.handles)
target_uuid    == IF args.uuid = None \/ args.uuid = Some("") THEN None ELSE Some(Lower(args.uuid[1]))
read_only      == args.read_only
notify_mode    == args.notify
use_tui        == args.tui /\ dev.curses

Line(kind, handle, len, input, text) ==
    [kind |-> kind, handle |-> handle, length |-> len, input |-> input, text |-> text]
Note(kind, text) == Line(kind, "", 0, "", text)

Call(op, handle, value, status, out) ==
    [op |-> op, handle |-> handle, value |-> value, code |-> status, out |-> out]

(***************************************************************************)
(* Initial states: the fuzzer just constructed (line 312), for the command *)
(* lines and environments below.  Each family varies some of the options   *)
(* and keeps the others at BaseArgs / BaseDev.                             *)
(***************************************************************************)
BaseArgs ==
    [handles |-> <<>>, services |-> <<>>, uuid |-> None, chars |-> 1, runs |-> None,
     random |-> FALSE, prefix |-> None, read_only |-> FALSE, notify |-> FALSE, tui |-> FALSE]

BaseDev ==
    [curses |-> TRUE, primary |-> Some(<<PrimaryLine("0x0001", "0x0001", "180A")>>),
     chardesc_ok |-> TRUE, limit |-> 2, lo |-> WrittenOk, hi |-> BadLength,
     read |-> ReadOk, fail_at |-> None]

\* ranges that overlap, repeat a handle or run backwards
OverlapArgs == {"2", "0x1-0x2", "3-1"}

\* any list of such ranges, swept in either reporting variant
RangeFamily ==
    /\ \E hs \in SeqsUpTo(OverlapArgs, MaxArgs), t \in BOOLEAN :
          args = [BaseArgs EXCEPT !.handles = hs, !.chars = 2, !.tui = t]
    /\ dev = BaseDev

\* the three sources of ranges and the UUID filter
SourceFamily ==
    /\ \E hs \in SeqsUpTo(RangeArgs, 1), ss \in {<<>>, <<"0x1-0x2">>},
          u \in {None} \cup {Some(a) : a \in UuidArgs} :
          args = [BaseArgs EXCEPT !.handles = hs, !.services = ss, !.uuid = u]
    /\ \E p \in PrimaryOutputs, ok \in BOOLEAN :
          dev = [BaseDev EXCEPT !.primary = p, !.chardesc_ok = ok]

\* the shape of the sweep
SweepFamily ==
    /\ \E hs \in SeqsUpTo(RangeArgs, 1), n \in -1..MaxChars,
          r \in {None} \cup {Some(k) : k \in -1..MaxRuns}, t \in BOOLEAN :
          args = [BaseArgs EXCEPT !.handles = hs, !.chars = n, !.runs = r, !.tui = t]
    /\ dev = BaseDev

\* what the device answers
DeviceFamily ==
    /\ \E n \in 1..MaxChars :
          args = [BaseArgs EXCEPT !.handles = <<"0x1-0x2">>, !.chars = n]
    /\ \E l \in 1..(MaxChars + 1), lo \in WriteResponses, hi \in WriteResponses, r \in ReadResults :
          dev = [BaseDev EXCEPT !.limit = l, !.lo = lo, !.hi = hi, !.read = r]

\* the payload options
PayloadFamily ==
    /\ \E p \in {None} \cup {Some(q) : q \in Prefixes}, rnd \in BOOLEAN, n \in 0..MaxChars,
          r \in {None, Some(1)}, t \in BOOLEAN :
          args = [BaseArgs EXCEPT !.handles = <<"1">>, !.prefix = p, !.random = rnd,
                                  !.chars = n, !.runs = r, !.tui = t]
    /\ \E l \in 1..(MaxChars + 1) : dev = [BaseDev EXCEPT !.limit = l]

\* read-only mode, with the options it leaves unused
ReadOnlyFamily ==
    /\ \E hs \in SeqsUpTo(OverlapArgs, MaxArgs), nt \in BOOLEAN, t \in BOOLEAN,
          rnd \in BOOLEAN, r \in {None, Some(1)}, p \in {None, Some("a")} :
          args = [BaseArgs EXCEPT !.handles = hs, !.read_only = TRUE, !.notify = nt,
                                  !.tui = t, !.random = rnd, !.runs = r, !.prefix = p]
    /\ \E r \in ReadResults : dev = [BaseDev EXCEPT !.read = r]

\* notification mode and the dashboard, with and without the curses module
NotifyFamily ==
    /\ \E hs \in {<<"2">>, <<"2", "3">>}, nt \in BOOLEAN, t \in BOOLEAN, r \in {None, Some(1)},
          n \in 1..MaxChars :
          args = [BaseArgs EXCEPT !.handles = hs, !.notify = nt, !.tui = t,
                                  !.runs = r, !.chars = n]
    /\ \E cu \in BOOLEAN, l \in {1, 2} :
          dev = [BaseDev EXCEPT !.curses = cu, !.limit = l]

\* a process that cannot be started (Popen raises OSError): the one after
\* fail_at calls that went through
FaultFamily ==
    /\ \E hs \in {<<>>, <<"0x1-0x2">>}, ro \in BOOLEAN, nt \in BOOLEAN, t \in BOOLEAN :
          args = [BaseArgs EXCEPT !.handles = hs, !.read_only = ro, !.notify = nt, !.tui = t]
    /\ \E k \in 0..MaxCalls : dev = [BaseDev EXCEPT !.fail_at = Some(k)]

Idle ==
    /\ svc_i = 0 /\ h = 0 /\ lengths = <<>> /\ len_i = 0
    /\ length = 0 /\ payload = "" /\ code = 0 /\ resp = "" /\ rb = None
    /\ c = ""

Init ==
    /\ \/ RangeFamily
       \/ SourceFamily
       \/ SweepFamily
       \/ DeviceFamily
       \/ PayloadFamily
       \/ ReadOnlyFamily
       \/ NotifyFamily
       \/ FaultFamily
    /\ pc = "discover"
    /\ services = <<>> /\ results = <<>> /\ success_count = 0 /\ fail_count = 0
    /\ Idle
    /\ log = <<>> /\ ops = <<>> /\ persisted = None /\ exit_code = None

(***************************************************************************)
(* Leaving the process: sys.exit, the end of the main block, or an         *)
(* exception nobody catches.  The locals die with it.                      *)
(***************************************************************************)
Exit(status) ==
    /\ pc' = "exited"
    /\ exit_code' = Some(status)
    /\ svc_i' = 0 /\ h' = 0 /\ lengths' = <<>> /\ len_i' = 0
    /\ length' = 0 /\ payload' = "" /\ code' = 0 /\ resp' = "" /\ rb' = None

\* subprocess.Popen / check_output cannot start the process
SpawnFails == dev.fail_at = Some(Len(ops))

(***************************************************************************)
(* discover(), lines 88-154                                                *)
(***************************************************************************)
Manual(ranges) ==
    [i \in 1..Len(ranges) |-> [start |-> ranges[i].start, end |-> ranges[i].end, uuid |-> "manual"]]

\* lines 92-95: which manual list overrides discovery, <<>> when neither is given
ManualSourceServicesFirst == IF service_ranges # <<>> THEN service_ranges ELSE handle_ranges
ManualSource == IF handle_ranges # <<>> THEN handle_ranges ELSE service_ranges

\* lines 103-114
RECURSIVE ParsePrimary(_)
ParsePrimary(lines) ==
    IF lines = <<>> THEN <<>>
    ELSE (IF lines[1].match
          THEN <<[start |-> IntBase16(lines[1].start), end |-> IntBase16(lines[1].end),
                  uuid |-> Lower(lines[1].uuid)]>>
          ELSE <<>>) \o ParsePrimary(Tail(lines))

\* line 121
MatchesAnywhere(svc, target) == Contains(target, svc.uuid)
Matches(svc, target) == StartsWith(svc.uuid, target)
Filtered(svcs, target) == SelectSeq(svcs, LAMBDA svc : Matches(svc, target))

\* lines 90-117
DiscoverServices ==
    /\ pc = "discover"
    /\ ManualSource = <<>> => ~SpawnFails
    /\ IF ManualSource # <<>>
       THEN /\ services' = Manual(ManualSource)
            /\ log' = Append(log, Note("header", "DISCOVER SERVICES"))
            /\ pc' = "filter"
            /\ UNCHANGED <<ops, persisted, exit_code, loops, locals>>
       ELSE /\ ops' = Append(ops, Call("primary", "", "", IF dev.primary = None THEN 1 ELSE 0, ""))
            /\ IF dev.primary = None
               THEN /\ log' = log \o <<Note("header", "DISCOVER SERVICES"),
                                       Note("warn", "Could not discover primary services")>>
                    /\ Exit(1)
                    /\ UNCHANGED <<services, persisted>>
               ELSE /\ log' = log \o <<Note("header", "DISCOVER SERVICES"), Note("primary", "")>>
                    /\ services' = services \o ParsePrimary(dev.primary[1])
                    /\ pc' = "filter"
                    /\ UNCHANGED <<persisted, exit_code, loops, locals>>
    /\ UNCHANGED <<config, results, success_count, fail_count, c>>

\* lines 119-125
FilterByUuid ==
    /\ pc = "filter"
    /\ IF target_uuid # None
       THEN IF Filtered(services, target_uuid[1]) = <<>>
            THEN /\ log' = Append(log, Note("error", "No services matching UUID"))
                 /\ Exit(1)
                 /\ UNCHANGED services
            ELSE /\ services' = Filtered(services, target_uuid[1])
                 /\ pc' = "chardesc"
                 /\ UNCHANGED <<log, exit_code, loops, locals>>
       ELSE /\ pc' = "chardesc"
            /\ UNCHANGED <<services, log, exit_code, loops, locals>>
    /\ UNCHANGED <<config, results, success_count, fail_count, c, ops, persisted>>

\* lines 127-154: the listing is printed, nothing of it is kept
DiscoverDescriptors ==
    /\ pc = "chardesc"
    /\ ~SpawnFails
    /\ ops' = Append(ops, Call("char-desc", "", "", IF dev.chardesc_ok THEN 0 ELSE 1, ""))
    /\ log' = log \o <<Note("header", "CHARACTERISTIC DESCRIPTORS"),
                       IF dev.chardesc_ok THEN Note("descriptors", "")
                       ELSE Note("warn", "Could not discover characteristics")>>
    /\ pc' = "fuzz"
    /\ UNCHANGED <<config, fuzzer, loops, locals, c, persisted, exit_code>>

(***************************************************************************)
(* fuzz(), lines 243-281, and _curses_fuzz(), lines 199-241                *)
(***************************************************************************)
ModeTuiFirst == IF use_tui THEN "tui" ELSE IF read_only THEN "read-only" ELSE "headless"
Mode == IF read_only THEN "read-only" ELSE IF use_tui THEN "tui" ELSE "headless"

\* range(1, n + 1)
UpTo(n) == [i \in 1..n |-> i]

\* [x] * n
RECURSIVE Times(_, _)
Times(x, n) == IF n <= 0 THEN <<>> ELSE <<x>> \o Times(x, n - 1)

\* lines 268-280: the lengths one handle is written with, headless
HeadlessLengthsFromZero ==
    IF Truthy(runs) THEN [i \in 1..runs[1] |-> chars_to_write]
    ELSE [i \in 1..(chars_to_write + 1) |-> i - 1]
HeadlessLengths ==
    IF Truthy(runs) THEN [i \in 1..runs[1] |-> chars_to_write] ELSE UpTo(chars_to_write)

\* line 217: the same, in the dashboard
TuiLengthsRunsGiven ==
    IF runs # None THEN Times(chars_to_write, runs[1]) ELSE UpTo(chars_to_write)
TuiLengths ==
    IF Truthy(runs) THEN Times(chars_to_write, runs[1]) ELSE UpTo(chars_to_write)

\* random.choice('0123456789abcdef'), cut down to two of its sixteen outcomes
RandomChars == {Char(HexDigits, 1), Char(HexDigits, 16)}

RECURSIVE RandomStrings(_)
RandomStrings(n) ==
    IF n <= 0 THEN {""}
    ELSE {ch \o rest : ch \in RandomChars, rest \in RandomStrings(n - 1)}

\* lines 218-219, 271-272, 277-278
SuffixesFullLength(len) ==
    IF random_mode THEN RandomStrings(len) ELSE {Repeat("0", len)}
Suffixes(len) ==
    IF random_mode THEN RandomStrings(len - Len(prefix))
    ELSE {Repeat("0", len - Len(prefix))}

\* the device: requests shorter than its limit get one answer, the others another
Respond(value) == IF Len(value) < dev.limit THEN dev.lo ELSE dev.hi

\* line 173
IsSuccessExitOnly(status, text) == status = 0
IsSuccess(status, text) == status = 0 /\ Contains("was written successfully", text)

\* line 180
MarkCaseSensitive(text) == IF Contains("invalid", text) THEN "?" ELSE "x"
Mark(text) == IF Contains("invalid", Lower(text)) THEN "?" ELSE "x"

\* lines 176 and 182
RecordEmptyReadback(hstr, len, status, text, readback) ==
    IF IsSuccess(status, text)
    THEN [handle |-> hstr, length |-> len, exit |-> 0, readback |-> readback]
    ELSE [handle |-> hstr, length |-> len, exit |-> status, readback |-> Some("")]
Record(hstr, len, status, text, readback) ==
    IF IsSuccess(status, text)
    THEN [handle |-> hstr, length |-> len, exit |-> 0, readback |-> readback]
    ELSE [handle |-> hstr, length |-> len, exit |-> status, readback |-> None]

\* lines 244-262
FuzzBegin ==
    /\ pc = "fuzz"
    /\ log' = IF Mode = "read-only" THEN Append(log, Note("header", "READ-ONLY MODE"))
              ELSE IF Mode = "headless" THEN Append(log, Note("header", "FUZZING HANDLES"))
              ELSE log
    /\ svc_i' = 1
    /\ pc' = "svc"
    /\ UNCHANGED <<config, fuzzer, h, lengths, len_i, locals, c, ops, persisted, exit_code>>

\* where each variant goes when the ranges are exhausted: lines 239-241, 256, 281
AfterSweepAlwaysWait == "tui_wait"
AfterSweep == IF Mode = "tui" THEN "tui_wait" ELSE "summarize"

\* `for svc in self.services`, lines 215, 248-250, 263-265
ForService ==
    /\ pc = "svc"
    /\ IF svc_i <= Len(services)
       THEN /\ h' = services[svc_i].start
            /\ log' = IF Mode = "tui" THEN log
                      ELSE Append(log, Line("service", Hex(services[svc_i].start), 0,
                                            Hex(services[svc_i].end), services[svc_i].uuid))
            /\ pc' = "handle"
       ELSE /\ pc' = AfterSweep
            /\ UNCHANGED <<h, log>>
    /\ UNCHANGED <<config, fuzzer, svc_i, lengths, len_i, locals, c, ops, persisted, exit_code>>

\* range(a, b + 1)
InRangeExclusive(n, svc) == n < svc.end
InRange(n, svc) == n <= svc.end

\* `for h in range(a, b+1)`, lines 216, 251, 266, 281
ForHandle ==
    /\ pc = "handle"
    /\ IF InRange(h, services[svc_i])
       THEN /\ IF Mode = "read-only"
               THEN pc' = "ro_read" /\ UNCHANGED <<lengths, len_i>>
               ELSE /\ lengths' = IF Mode = "tui" THEN TuiLengths ELSE HeadlessLengths
                    /\ len_i' = 1
                    /\ pc' = "len"
            /\ UNCHANGED <<svc_i, log>>
       ELSE /\ svc_i' = svc_i + 1
            /\ log' = IF Mode = "headless" THEN Append(log, Note("blank", "")) ELSE log
            /\ pc' = "svc"
            /\ UNCHANGED <<lengths, len_i>>
    /\ UNCHANGED <<config, fuzzer, h, locals, c, ops, persisted, exit_code>>

\* the loop over the lengths and the payload, lines 217-220, 269-273, 276-279
ForLength ==
    /\ pc = "len"
    /\ IF len_i <= Len(lengths)
       THEN /\ length' = lengths[len_i]
            /\ \E suffix \in Suffixes(lengths[len_i]) : payload' = prefix \o suffix
            /\ pc' = "write"
            /\ UNCHANGED h
       ELSE /\ h' = h + 1
            /\ pc' = "handle"
            /\ UNCHANGED <<length, payload>>
    /\ UNCHANGED <<config, fuzzer, svc_i, lengths, len_i, code, resp, rb, c, outside>>

(***************************************************************************)
(* _attempt(), lines 162-197, and _read_handle(), lines 156-160            *)
(***************************************************************************)
\* lines 163-174
Write ==
    /\ pc = "write"
    /\ ~SpawnFails
    /\ LET answer == Respond(payload) IN
       /\ ops' = Append(ops, Call("write", Hex4(h), payload, answer.code, answer.out))
       /\ code' = answer.code
       /\ resp' = Strip(answer.out)
       /\ pc' = IF IsSuccess(answer.code, Strip(answer.out)) THEN "read" ELSE "append"
    /\ rb' = None
    /\ UNCHANGED <<config, fuzzer, loops, length, payload, c, log, persisted, exit_code>>

\* line 175
ReadBack ==
    /\ pc = "read"
    /\ ~SpawnFails
    /\ ops' = Append(ops, Call("read", Hex4(h), "", dev.read.code, dev.read.out))
    /\ rb' = Some(Strip(dev.read.out))
    /\ pc' = "append"
    /\ UNCHANGED <<config, fuzzer, loops, length, payload, code, resp, c, log, persisted, exit_code>>

\* lines 176, 182
AppendResult ==
    /\ pc = "append"
    /\ results' = Append(results, Record(Hex4(h), length, code, resp, rb))
    /\ pc' = "count"
    /\ UNCHANGED <<config, services, success_count, fail_count, loops, locals, c, outside>>

\* line 186, after either branch
AfterCountOnSuccess == IF notify_mode /\ IsSuccess(code, resp) THEN "listen" ELSE "sleep"
AfterCount == IF notify_mode THEN "listen" ELSE "sleep"

\* lines 177-178, 183-184
Count ==
    /\ pc = "count"
    /\ IF IsSuccess(code, resp)
       THEN /\ success_count' = success_count + 1
            /\ log' = Append(log, Line("OK", Hex4(h), length, payload, rb[1]))
            /\ UNCHANGED fail_count
       ELSE /\ fail_count' = fail_count + 1
            /\ log' = Append(log, Line(Mark(resp), Hex4(h), length, payload, resp))
            /\ UNCHANGED success_count
    /\ pc' = AfterCount
    /\ UNCHANGED <<config, services, results, loops, locals, c, ops, persisted, exit_code>>

\* lines 186-197
Listen ==
    /\ pc = "listen"
    /\ ~SpawnFails
    /\ \E heard \in ListenOutcomes :
         /\ ops' = Append(ops, Call("listen", "", "", heard.code, heard.out))
         /\ log' = IF heard.code = 0 /\ Strip(heard.out) # ""
                   THEN Append(log, Note("notify", Strip(heard.out)))
                   ELSE log
    /\ pc' = "sleep"
    /\ UNCHANGED <<config, fuzzer, loops, locals, c, persisted, exit_code>>

\* lines 274, 280: headless, the pause and on to the next length
Sleep ==
    /\ pc = "sleep"
    /\ Mode = "headless"
    /\ len_i' = len_i + 1
    /\ pc' = "len"
    /\ UNCHANGED <<config, fuzzer, svc_i, h, lengths, locals, c, outside>>

\* line 236
IsQuit(key) == key \in {"q", "Q"}

\* lines 222-237: the dashboard's status line, the pause and the key poll
PollKey ==
    /\ pc = "sleep"
    /\ Mode = "tui"
    /\ \E key \in Keys :
         /\ c' = key
         /\ IF IsQuit(key)
            THEN pc' = "summarize" /\ UNCHANGED len_i
            ELSE pc' = "len" /\ len_i' = len_i + 1
    /\ UNCHANGED <<config, fuzzer, svc_i, h, lengths, locals, outside>>

\* lines 239-241: the dashboard waits for any key
TuiWait ==
    /\ pc = "tui_wait"
    /\ \E key \in Keys \ {""} : pc' = "summarize"
    /\ UNCHANGED <<config, fuzzer, loops, locals, c, outside>>

\* lines 252-253
ReadOnlyRead ==
    /\ pc = "ro_read"
    /\ ~SpawnFails
    /\ ops' = Append(ops, Call("read", Hex4(h), "", dev.read.code, dev.read.out))
    /\ rb' = Some(Strip(dev.read.out))
    /\ pc' = "ro_append"
    /\ UNCHANGED <<config, fuzzer, loops, length, payload, code, resp, c, log, persisted, exit_code>>

\* lines 254-255
ReadOnlyAppend ==
    /\ pc = "ro_append"
    /\ results' = Append(results, [handle |-> Hex4(h), readback |-> rb])
    /\ log' = Append(log, Line("OK", Hex4(h), 0, "", rb[1]))
    /\ h' = h + 1
    /\ pc' = "handle"
    /\ UNCHANGED <<config, services, success_count, fail_count, svc_i, lengths, len_i,
                   locals, c, ops, persisted, exit_code>>

(***************************************************************************)
(* summarize(), lines 283-286, and the main block, lines 312-320           *)
(***************************************************************************)
\* json.dump(self.results, f): the list, record by record, in order
JsonDumpAllButLast(rs) == SubSeq(rs, 1, Len(rs) - 1)
JsonDump(rs) == [i \in 1..Len(rs) |-> rs[i]]

\* line 316, then the end of the script
Summarize ==
    /\ pc = "summarize"
    /\ persisted' = Some(JsonDump(results))
    /\ log' = Append(log, Note("header", "RESULTS SAVED"))
    /\ Exit(0)
    /\ UNCHANGED <<config, fuzzer, c, ops>>

\* lines 317-320: Ctrl-C anywhere in discover(), fuzz() or summarize()
KeyboardInterrupt ==
    /\ pc # "exited"
    /\ log' = log \o <<Note("header", "INTERRUPTED"), Note("header", "RESULTS SAVED")>>
    /\ persisted' = Some(JsonDump(results))
    /\ Exit(1)
    /\ UNCHANGED <<config, fuzzer, c, ops>>

\* lines 100, 134, 158, 168, 188: the process cannot be started.  Nothing catches
\* OSError (lines 115, 153 and 196 catch CalledProcessError, line 317
\* KeyboardInterrupt): the interpreter prints the traceback and exits with status 1.
SpawnPoint ==
    \/ pc = "discover" /\ ManualSource = <<>>
    \/ pc \in {"chardesc", "write", "read", "listen", "ro_read"}

OSError ==
    /\ SpawnPoint
    /\ SpawnFails
    /\ log' = log \o (IF pc = "discover" THEN <<Note("header", "DISCOVER SERVICES")>>
                      ELSE IF pc = "chardesc" THEN <<Note("header", "CHARACTERISTIC DESCRIPTORS")>>
                      ELSE <<>>)
                  \o <<Note("traceback", "OSError")>>
    /\ Exit(1)
    /\ UNCHANGED <<config, fuzzer, c, ops, persisted>>

Next ==
    \/ DiscoverServices
    \/ FilterByUuid
    \/ DiscoverDescriptors
    \/ FuzzBegin
    \/ ForService
    \/ ForHandle
    \/ ForLength
    \/ Write
    \/ ReadBack
    \/ AppendResult
    \/ Count
    \/ Listen
    \/ Sleep
    \/ PollKey
    \/ TuiWait
    \/ ReadOnlyRead
    \/ ReadOnlyAppend
    \/ Summarize
    \/ KeyboardInterrupt
    \/ OSError

Spec == Init /\ [][Next]_vars

(***************************************************************************)
(* The run left to itself.  Keys may be pressed, or not; nobody presses    *)
(* Ctrl-C.  The steps the interpreter takes by itself are taken sooner or  *)
(* later: the loops, sleep(), getch() under nodelay(True), which returns   *)
(* at once, and summarize().  Nothing is assumed of gatttool: a call may   *)
(* never return.                                                           *)
(***************************************************************************)
\* line 235 with no key waiting
PollNoKey == PollKey /\ c' = ""

Unattended ==
    \/ DiscoverServices
    \/ FilterByUuid
    \/ DiscoverDescriptors
    \/ FuzzBegin
    \/ ForService
    \/ ForHandle
    \/ ForLength
    \/ Write
    \/ ReadBack
    \/ AppendResult
    \/ Count
    \/ Listen
    \/ Sleep
    \/ PollNoKey
    \/ Summarize

KeyPressed ==
    \/ PollKey
    \/ TuiWait

SweepInit ==
    /\ \/ RangeFamily
       \/ SweepFamily
       \/ NotifyFamily
    /\ pc = "discover"
    /\ services = <<>> /\ results = <<>> /\ success_count = 0 /\ fail_count = 0
    /\ Idle
    /\ log = <<>> /\ ops = <<>> /\ persisted = None /\ exit_code = None

Proceeds ==
    \/ FuzzBegin
    \/ ForService
    \/ ForHandle
    \/ ForLength
    \/ Sleep
    \/ PollNoKey
    \/ Summarize

LeftAlone == SweepInit /\ [][Unattended \/ KeyPressed]_vars /\ WF_vars(Proceeds)

(***************************************************************************)
(* Vocabulary of the properties                                            *)
(***************************************************************************)
\* the run went through the whole sweep to the end of the script
Completed == pc = "exited" /\ exit_code = Some(0) /\ ~IsQuit(c)

\* the run ended in the KeyboardInterrupt handler
Interrupted ==
    /\ pc = "exited"
    /\ Len(log) >= 2
    /\ log[Len(log) - 1] = Note("header", "INTERRUPTED")

\* the run ended at line 124
FilterAborted ==
    /\ pc = "exited"
    /\ log # <<>>
    /\ log[Len(log)] = Note("error", "No services matching UUID")

Writes == SelectSeq(ops, LAMBDA o : o.op = "write")
AttemptLines == SelectSeq(log, LAMBDA l : l.kind \in {"OK", "?", "x"})

\* the handles of the resolved ranges, and how many ranges hold a handle
Targeted == UNION {services[i].start .. services[i].end : i \in 1..Len(services)}
Visits(n) == Cardinality({i \in 1..Len(services) : services[i].start <= n /\ n <= services[i].end})

LengthsAt(hstr) ==
    LET mine == SelectSeq(results, LAMBDA r : r.handle = hstr)
    IN  [i \in 1..Len(mine) |-> mine[i].length]

RECURSIVE Copies(_, _)
Copies(q, n) == IF n <= 0 THEN <<>> ELSE q \o Copies(q, n - 1)

\* C1 as stated: after an uninterrupted incremental fuzz run with max length
\* C >= 1, every targeted handle has exactly C records, of lengths 1..C in order,
\* whatever the list of ranges.
C1_AsStated ==
    (Completed /\ ~read_only /\ runs = None /\ chars_to_write >= 1)
        => \A n \in Targeted : LengthsAt(Hex4(n)) = [i \in 1..chars_to_write |-> i]

\* C1 amended: after an uninterrupted incremental fuzz run with max length
\* C >= 1, every targeted handle has the lengths 1..C in order once for each
\* resolved range that holds it: C records when one range holds it, C times the
\* number of ranges when they overlap or repeat it.
C1_IncrementalPerVisit ==
    (Completed /\ ~read_only /\ runs = None /\ chars_to_write >= 1)
        => \A n \in Targeted :
              LengthsAt(Hex4(n)) = Copies([i \in 1..chars_to_write |-> i], Visits(n))

C1_Witness ==
    /\ Completed /\ ~read_only /\ runs = None /\ chars_to_write = 2
    /\ \E n \in Targeted : Visits(n) = 2 /\ LengthsAt(Hex4(n)) = <<1, 2, 1, 2>>
    /\ \E n \in Targeted : Visits(n) = 1 /\ LengthsAt(Hex4(n)) = <<1, 2>>

\* C2: after an uninterrupted fuzz run with run count N >= 0 given, every
\* targeted handle has exactly N records, each of length chars_to_write.
C2_AsStated ==
    (Completed /\ ~read_only /\ runs # None /\ runs[1] >= 0)
        => \A n \in Targeted :
              LengthsAt(Hex4(n)) = [i \in 1..runs[1] |-> chars_to_write]

\* the lengths one handle is written with, in the reporting variant in use
SweepLengths == IF Mode = "tui" THEN TuiLengths ELSE HeadlessLengths

\* the nested order: ranges as resolved, handles ascending, lengths as generated
RECURSIVE PlanHandles(_, _)
PlanHandles(a, b) ==
    IF a > b THEN <<>>
    ELSE [k \in 1..Len(SweepLengths) |-> <<Hex4(a), SweepLengths[k]>>] \o PlanHandles(a + 1, b)

RECURSIVE PlanRanges(_)
PlanRanges(svcs) ==
    IF svcs = <<>> THEN <<>>
    ELSE PlanHandles(svcs[1].start, svcs[1].end) \o PlanRanges(Tail(svcs))

Plan == PlanRanges(services)

Recorded == [i \in 1..Len(results) |-> <<results[i].handle, results[i].length>>]

RECURSIVE Sum(_)
Sum(q) == IF q = <<>> THEN 0 ELSE q[1] + Sum(Tail(q))

Max0(n) == IF n > 0 THEN n ELSE 0

\* C3 as stated: after an uninterrupted fuzz run the records are the nested
\* iteration order, one per (range, handle, sweep entry), and their number is the
\* sum over the ranges of (end - start + 1) times the per-handle sweep size.
C3_AsStated ==
    (Completed /\ ~read_only)
        => /\ Recorded = Plan
           /\ Len(results) = Sum([i \in 1..Len(services) |->
                                   (services[i].end - services[i].start + 1) * Len(SweepLengths)])

\* C3 amended: after an uninterrupted fuzz run the records are the nested
\* iteration order, one per (range, handle, sweep entry) and one per write issued,
\* and their number is the sum over the ranges of max(0, end - start + 1) times
\* the per-handle sweep size.
C3_NestedOrder ==
    (Completed /\ ~read_only)
        => /\ Recorded = Plan
           /\ Len(Writes) = Len(results)
           /\ \A i \in 1..Len(results) : Writes[i].handle = results[i].handle
           /\ Len(results) = Sum([i \in 1..Len(services) |->
                                   Max0(services[i].end - services[i].start + 1) * Len(SweepLengths)])

C3_Witness ==
    /\ Completed /\ ~read_only
    /\ Len(services) = 2
    /\ services[1].start > services[1].end + 1
    /\ services[2].start < services[2].end
    /\ Len(results) = 4

Reads == SelectSeq(ops, LAMBDA o : o.op = "read")

\* C4: a run ended by an interrupt has saved exactly the records appended so far,
\* in their order, which are the first records of the nested order with nothing after
\* them attempted but at most the call in flight, and exits with status 1.
C4_InterruptPersists ==
    Interrupted
        => /\ exit_code = Some(1)
           /\ persisted = Some(results)
           /\ read_only => Len(Reads) \in {Len(results), Len(results) + 1}
           /\ ~read_only =>
                 LET ws == Writes
                     plan == Plan
                 IN  /\ Len(ws) \in {Len(results), Len(results) + 1}
                     /\ Len(results) <= Len(plan)
                     /\ Recorded = SubSeq(plan, 1, Len(results))
                     /\ \A i \in 1..Len(results) : ws[i].handle = results[i].handle

C4_Witness ==
    /\ Interrupted /\ ~read_only
    /\ persisted # None
    /\ Len(persisted[1]) = 3
    /\ Len(Plan) = 6
    /\ Len(Writes) = 4
    /\ persisted[1][3].handle = Hex4(2)

\* the responses that carry the written-successfully marker
MarkedOutputs ==
    {r.out : r \in {w \in WriteResponses :
        \E i \in 1..(Len(w.out) - 23) : SubSeq(w.out, i, i + 23) = "was written successfully"}}

HasWrittenMarker(o) == o.out \in MarkedOutputs

\* C5: the attempts counted so far are counted as successes exactly when their
\* write ended with exit status 0 and the marker in its response, and as failures
\* otherwise; their printed line says OK in exactly the same cases.
C5_SuccessIff ==
    ~read_only =>
        LET counted == success_count + fail_count
            ws == Writes
            lines == AttemptLines
        IN
        /\ counted <= Len(ws)
        /\ Len(lines) = counted
        /\ success_count = Cardinality({i \in 1..counted :
                                          ws[i].code = 0 /\ HasWrittenMarker(ws[i])})
        /\ \A i \in 1..counted :
              lines[i].kind = "OK" <=> (ws[i].code = 0 /\ HasWrittenMarker(ws[i]))

C5_Witness ==
    /\ ~read_only
    /\ success_count = 0 /\ fail_count = 4
    /\ \E i, j \in 1..Len(Writes) :
          /\ Writes[i].code = 0 /\ ~HasWrittenMarker(Writes[i])
          /\ Writes[j].code # 0 /\ HasWrittenMarker(Writes[j])

\* the responses that carry the invalid marker, with a small or a capital i
InvalidOutputs ==
    {r.out : r \in {w \in WriteResponses :
        \E i \in 1..(Len(w.out) - 6) : SubSeq(w.out, i, i + 6) \in {"invalid", "Invalid"}}}

HasInvalidMarker(o) == o.out \in InvalidOutputs

Succeeded(o) == o.code = 0 /\ HasWrittenMarker(o)

WriteAt == SelectSeq([j \in 1..Len(ops) |-> j], LAMBDA j : ops[j].op = "write")

\* C7: in fuzz mode a read is issued only right after a successful write, of the
\* same handle, while that attempt's record is not yet appended; every successful
\* write is followed by its read unless the run was cut right after the write; a
\* record of a successful write holds what that read returned, stripped, and a
\* record of any other write holds no readback.
C7_ReadbackIff ==
    ~read_only =>
        /\ \A j \in 1..Len(ops) :
              ops[j].op = "read" =>
                  /\ j > 1
                  /\ ops[j - 1].op = "write"
                  /\ Succeeded(ops[j - 1])
                  /\ ops[j - 1].handle = ops[j].handle
        /\ \A j \in 1..Len(ops) :
              (ops[j].op = "write" /\ Succeeded(ops[j]))
                  => IF j < Len(ops) THEN ops[j + 1].op = "read"
                     ELSE pc \in {"read", "exited"} /\ Len(results) < Len(Writes)
        /\ (ops # <<>> /\ ops[Len(ops)].op = "read" /\ pc = "append")
              => Len(results) = Len(Writes) - 1
        /\ LET at == WriteAt IN
           /\ Len(results) <= Len(at)
           /\ \A i \in 1..Len(results) :
                 results[i].readback =
                     (IF Succeeded(ops[at[i]]) THEN Some(Strip(ops[at[i] + 1].out)) ELSE None)

C7_Witness ==
    /\ ~read_only
    /\ Len(results) = 2
    /\ results[1].readback = Some("Characteristic value/descriptor: 00 01")
    /\ results[2].readback = None
    /\ Len(Reads) = 1

\* lines 90-117 have run
SourceChosen ==
    /\ log # <<>> /\ log[1] = Note("header", "DISCOVER SERVICES")
    /\ Len(log) >= 2 => log[2].kind # "traceback"

RangesOf(svcs) == [i \in 1..Len(svcs) |-> [start |-> svcs[i].start, end |-> svcs[i].end]]
PrimaryCalls == SelectSeq(ops, LAMBDA o : o.op = "primary")

\* C8: with manual handle ranges given, the ranges are those handle ranges in
\* the order given, whatever the service ranges are, and primary services are never
\* asked for; without them, service ranges, if given, are used the same way; with
\* neither, primary services are asked for once and the ranges are the services the
\* listing names (those the UUID filter keeps, once it has run).
C8_SourcePrecedence ==
    LET resolved == SourceChosen /\ ~FilterAborted
        filtering == pc = "filter"
        byHandle == handle_ranges
        byService == service_ranges
    IN
    /\ byHandle # <<>> =>
          /\ PrimaryCalls = <<>>
          /\ resolved => RangesOf(services) = byHandle
          /\ filtering => \A i \in 1..Len(services) : services[i].uuid = "manual"
    /\ (byHandle = <<>> /\ byService # <<>>) =>
          /\ PrimaryCalls = <<>>
          /\ resolved => RangesOf(services) = byService
    /\ (byHandle = <<>> /\ byService = <<>>) =>
          /\ Len(PrimaryCalls) <= 1
          /\ SourceChosen => Len(PrimaryCalls) = 1
          /\ (filtering /\ dev.primary # None) =>
                /\ Len(services) = Len(SelectSeq(dev.primary[1], LAMBDA l : l.match))
                /\ \A i \in 1..Len(services) : services[i].uuid # "manual"
          /\ (resolved /\ pc # "exited") => \A i \in 1..Len(services) : services[i].uuid # "manual"

C8_Witness ==
    /\ Completed
    /\ handle_ranges = <<[start |-> 3, end |-> 3]>>
    /\ service_ranges = <<[start |-> 1, end |-> 2]>>
    /\ services = <<[start |-> 3, end |-> 3, uuid |-> "manual"]>>
    /\ Len(Writes) = 1 /\ Writes[1].handle = "0x0003"
    /\ PrimaryCalls = <<>>

\* C9: with manual handle or service ranges and a UUID filter both given, the
\* filter leaves the manual ranges as they are and the run goes on to the sweep.
C9_AsStated ==
    ((handle_ranges # <<>> \/ service_ranges # <<>>) /\ target_uuid # None
        /\ SourceChosen /\ pc # "filter")
        => /\ ~FilterAborted
           /\ RangesOf(services) = (IF handle_ranges # <<>> THEN handle_ranges ELSE service_ranges)

FilterKeeps(uuid) ==
    /\ Len(target_uuid[1]) <= Len(uuid)
    /\ SubSeq(uuid, 1, Len(target_uuid[1])) = target_uuid[1]

\* C10: a run ended by a UUID filter that matches no service exits with status
\* 1 having saved no results file and issued no transport call but, at most, the
\* primary-service listing; and a run with a UUID filter that got as far as
\* characteristic-descriptor discovery, a write or a read has at least one range,
\* each of a service whose UUID begins with the filter.
C10_FilterAbort ==
    /\ FilterAborted =>
          /\ target_uuid # None
          /\ exit_code = Some(1)
          /\ persisted = None
          /\ results = <<>>
          /\ \A j \in 1..Len(ops) : ops[j].op = "primary"
          /\ \A i \in 1..Len(services) : ~FilterKeeps(services[i].uuid)
    /\ (target_uuid # None /\ \E j \in 1..Len(ops) : ops[j].op # "primary") =>
          /\ services # <<>>
          /\ \A i \in 1..Len(services) : FilterKeeps(services[i].uuid)

C10_Witness ==
    /\ FilterAborted
    /\ target_uuid = Some("ff")
    /\ services = <<[start |-> 1, end |-> 1, uuid |-> "180a"]>>
    /\ Len(ops) = 1 /\ ops[1].op = "primary"
    /\ persisted = None /\ exit_code = Some(1)
\* the run ended with an exception nobody caught
Crashed ==
    /\ pc = "exited"
    /\ log # <<>>
    /\ log[Len(log)].kind = "traceback"

\* discover() returned: what follows is the sweep
Sweeping == \E j \in 1..Len(ops) : ops[j].op = "char-desc"

\* the transport call did not get through
Errored(o) == o.code # 0

\* C11: in fuzz mode an attempt whose write or read-back did not get through is
\* reported as a failure, not as a success, and no transport error during the
\* sweep ends the run: once the sweep has begun the process ends only after
\* saving the results.
C11_AsStated ==
    ~read_only =>
        LET at == WriteAt
            lines == AttemptLines
        IN
        /\ \A i \in 1..Len(lines) :
              (\/ Errored(ops[at[i]])
               \/ ops[at[i] + 1].op = "read" /\ Errored(ops[at[i] + 1]))
                  => lines[i].kind # "OK"
        /\ (pc = "exited" /\ Sweeping) => persisted # None
\* range(a, b+1), as handle strings
RECURSIVE HandlesOf(_, _)
HandlesOf(a, b) == IF a > b THEN <<>> ELSE <<Hex4(a)>> \o HandlesOf(a + 1, b)

\* the read-only order: ranges as resolved, handles ascending
RECURSIVE ReadPlan(_)
ReadPlan(svcs) ==
    IF svcs = <<>> THEN <<>>
    ELSE HandlesOf(svcs[1].start, svcs[1].end) \o ReadPlan(Tail(svcs))

\* C12: with the read-only flag set, whatever the run count and the random,
\* prefix, notify and dashboard options, no write and no listen is ever issued
\* and nothing is counted; the reads issued are, in order, one per handle of each
\* resolved range from start to end, each record holds the handle of its read and
\* the value that read returned, and a run that completes has read every handle
\* and saved exactly those records.
C12_ReadOnly ==
    read_only =>
        LET reads == Reads
            plan == ReadPlan(services)
        IN
        /\ \A j \in 1..Len(ops) : ops[j].op \in {"primary", "char-desc", "read"}
        /\ success_count = 0 /\ fail_count = 0
        /\ Len(reads) \in {Len(results), Len(results) + 1}
        /\ Len(reads) <= Len(plan)
        /\ \A i \in 1..Len(reads) : reads[i].handle = plan[i]
        /\ \A i \in 1..Len(results) :
              results[i] = [handle |-> plan[i], readback |-> Some(Strip(reads[i].out))]
        /\ Completed =>
              /\ Len(results) = Len(plan)
              /\ Len(reads) = Len(plan)
              /\ persisted = Some(results)

C12_Witness ==
    /\ Completed /\ read_only
    /\ args.tui /\ args.notify /\ args.random /\ args.runs # None /\ args.prefix # None
    /\ RangesOf(services) = <<[start |-> 1, end |-> 2], [start |-> 2, end |-> 2]>>
    /\ Len(persisted[1]) = 3
    /\ persisted[1][2].handle = Hex4(2) /\ persisted[1][3].handle = Hex4(2)
    /\ persisted[1][1].readback = Some("Characteristic value/descriptor: 00 01")
\* the dashboard returned at line 237
QuitRequested == IsQuit(c)

\* C13: a run of the dashboard ended by the quit key has made no attempt after
\* the one at which the key was polled, has saved the records appended so far,
\* and exits with status 1, as an interrupted run does.
C13_AsStated ==
    (pc = "exited" /\ QuitRequested)
        => /\ Len(Writes) = Len(results)
           /\ persisted = Some(results)
           /\ exit_code = Some(1)
\* C14: in a fuzz run ended by an interrupt every write issued has its record
\* in the saved results, and the success and failure counters add up to the number
\* of records.
C14_AsStated ==
    (Interrupted /\ ~read_only)
        => /\ persisted # None
           /\ Len(Writes) = Len(persisted[1])
           /\ success_count + fail_count = Len(results)
\* the entries of the saved file that summarise a handle.  summarize() dumps the
\* records as they are (line 285) and prints one header (line 286); a record has
\* the keys handle, length, exit, readback or handle, readback.
SummaryEntries(saved) ==
    {saved[i] : i \in {k \in 1..Len(saved) : "firstFailLength" \in DOMAIN saved[k]}}

\* a record of a write that succeeded (line 176)
IsSuccessRecord(r) == r.exit = 0 /\ r.readback # None

\* the length of the first record of the handle that is not a success, if any
FirstFailLength(hstr) ==
    LET fails == SelectSeq(results, LAMBDA r : r.handle = hstr /\ ~IsSuccessRecord(r))
    IN  IF fails = <<>> THEN None ELSE Some(fails[1].length)

\* C15: at the end of a fuzz run, completed or interrupted, what summarize()
\* produced holds, for each handle with records, its firstFailLength: the length
\* of the handle's first record that is not a success, or none.
C15_AsStated ==
    (pc = "exited" /\ persisted # None /\ ~read_only)
        => \A i \in 1..Len(results) :
              \E e \in SummaryEntries(persisted[1]) :
                  /\ e.handle = results[i].handle
                  /\ e.firstFailLength = FirstFailLength(results[i].handle)
\* C16: the value of every write is the prefix, whole, followed by exactly
\* max(0, L - len(prefix)) characters, L being the nominal length of the sweep
\* entry: all "0" without random mode, hex digits with it; so a prefix longer
\* than L is written as it is.  The record stores L, not the length written.
C16_Payload ==
    ~read_only =>
        LET ws == Writes
            plan == Plan
            P == Len(prefix)
        IN
        /\ Len(ws) <= Len(plan)
        /\ \A i \in 1..Len(ws) :
              LET L == plan[i][2]
                  v == ws[i].value
              IN  /\ Len(v) = P + Max0(L - P)
                  /\ SubSeq(v, 1, P) = prefix
                  /\ \A k \in (P + 1)..Len(v) :
                        IF random_mode
                        THEN \E d \in 1..16 : Char(v, k) = Char(HexDigits, d)
                        ELSE Char(v, k) = "0"
                  /\ i <= Len(results) => results[i].length = L

C16_Witness ==
    /\ Completed /\ ~read_only
    /\ prefix = "aa" /\ ~random_mode
    /\ Len(Writes) = 2
    /\ Writes[1].value = "aa" /\ results[1].length = 1
    /\ Writes[2].value = "aa" /\ results[2].length = 2
Listens == SelectSeq(ops, LAMBDA o : o.op = "listen")

\* where the listens stand among the calls and the records
ListenPlacement ==
    LET listens == Listens
        counted == success_count + fail_count
    IN
    /\ ~notify_mode => listens = <<>>
    /\ (notify_mode /\ ~read_only) =>
          /\ Len(listens) <= Len(results)
          /\ Len(listens) <= counted /\ counted <= Len(listens) + 1
          /\ counted = Len(listens) + 1 => pc \in {"listen", "exited"}
          /\ \A j \in 1..Len(ops) :
                ops[j].op = "listen" =>
                    /\ j > 1
                    /\ ops[j - 1].op \in {"write", "read"}
                    /\ ops[j - 1].op = "write" => ~Succeeded(ops[j - 1])
          /\ (pc = "exited" /\ ~Interrupted /\ ~Crashed) =>
                /\ Len(listens) = Len(Writes)
                /\ Len(listens) = Len(results)

\* what a step that issues a listen leaves alone, whatever the listen ends with
ListenFrame ==
    (Len(ops') = Len(ops) + 1 /\ ops'[Len(ops')].op = "listen")
        => /\ results' = results
           /\ success_count' = success_count
           /\ fail_count' = fail_count
           /\ UNCHANGED loops
           /\ pc' = "sleep"

\* C17: with notification mode on, every write attempt of a fuzz run, success
\* or failure, is followed by exactly one listen, issued after the attempt's
\* record is appended and counted; whatever the listen ends with (a payload,
\* nothing, a non-zero exit) the results and the counters stay as they were and
\* the sweep goes on.  With notification mode off no listen is ever issued.
C17_Notify == [](ListenPlacement) /\ [][ListenFrame]_vars

C17_Witness ==
    /\ Completed /\ notify_mode /\ ~read_only
    /\ Len(Writes) = 2 /\ Succeeded(Writes[1]) /\ ~Succeeded(Writes[2])
    /\ Len(Listens) = 2
    /\ Listens[1].code = 124 /\ Listens[2].code = 0
    /\ Len(results) = 2 /\ success_count = 1 /\ fail_count = 1
\* the ranges that run forwards
Forward(svcs) == SelectSeq(svcs, LAMBDA svc : svc.start <= svc.end)

\* C18: a range given as a-1 with a > 1 is resolved to start a, end 1, as
\* given; in every mode the calls and the records are those of the other ranges
\* alone, all of them once the run has completed, and the run then has saved them.
C18_ReversedRange ==
    /\ (SourceChosen /\ ~FilterAborted /\ args.handles # <<>>) =>
          /\ Len(services) = Len(args.handles)
          /\ \A i \in 1..Len(services) :
                \A n \in 2..(MaxHandle + 1) :
                    args.handles[i] = HexStr(n) \o "-1"
                        => services[i] = [start |-> n, end |-> 1, uuid |-> "manual"]
    /\ (\E i \in 1..Len(services) : services[i].start > services[i].end) =>
          LET fwd == Forward(services)
              ws == Writes
              rs == Reads
          IN
          IF read_only
          THEN LET plan == ReadPlan(fwd) IN
               /\ Len(rs) <= Len(plan)
               /\ \A i \in 1..Len(rs) : rs[i].handle = plan[i]
               /\ Completed =>
                     /\ Len(rs) = Len(plan)
                     /\ [i \in 1..Len(results) |-> results[i].handle] = plan
                     /\ persisted = Some(results)
          ELSE LET plan == PlanRanges(fwd) IN
               /\ Len(ws) <= Len(plan)
               /\ \A i \in 1..Len(ws) : ws[i].handle = plan[i][1]
               /\ Completed =>
                     /\ Len(ws) = Len(plan)
                     /\ Recorded = plan
                     /\ persisted = Some(results)

C18_Witness ==
    /\ Completed /\ read_only
    /\ args.handles = <<"3-1", "0x1-0x2">>
    /\ RangesOf(services) = <<[start |-> 3, end |-> 1], [start |-> 1, end |-> 2]>>
    /\ Len(Reads) = 2
    /\ persisted # None /\ Len(persisted[1]) = 2
    /\ persisted[1][1].handle = Hex4(1) /\ persisted[1][2].handle = Hex4(2)
\* every entry of the sweep has been attempted
SweepComplete ==
    /\ ~read_only
    /\ Sweeping
    /\ LET n == Len(Plan) IN
       /\ Len(results) = n
       /\ success_count + fail_count = n
       /\ notify_mode => Len(Listens) = n

\* the results are saved and the process has ended with status 0
SavedAndExited == pc = "exited" /\ exit_code = Some(0) /\ persisted = Some(results)

\* C19 as stated: left to itself, a fuzz run that has attempted every entry of
\* the sweep saves the results and exits with status 0, headless or in the
\* dashboard, no key being needed.
C19_AsStated == SweepComplete ~> SavedAndExited

\* C19 amended: left to itself, a headless fuzz run that has attempted every
\* entry of the sweep saves the results and exits with status 0; in the
\* dashboard such a run comes to wait for a key (unless the quit key ended it),
\* and once a key is pressed there it saves the results and exits with status 0.
C19_Termination ==
    /\ (SweepComplete /\ Mode = "headless") ~> SavedAndExited
    /\ (SweepComplete /\ Mode = "tui") ~> (pc = "tui_wait" \/ SavedAndExited)
    /\ (SweepComplete /\ pc = "summarize") ~> SavedAndExited
    /\ [][(pc = "tui_wait" /\ pc' # "tui_wait") => pc' = "summarize"]_vars

C19_Witness ==
    /\ SavedAndExited /\ SweepComplete
    /\ Mode = "tui" /\ ~QuitRequested
    /\ Len(results) = 4
\* the lengths the other reporting variant writes a handle with
OtherVariantLengths == IF Mode = "tui" THEN HeadlessLengths ELSE TuiLengths

RECURSIVE PlanHandlesWith(_, _, _)
PlanHandlesWith(a, b, lens) ==
    IF a > b THEN <<>>
    ELSE [k \in 1..Len(lens) |-> <<Hex4(a), lens[k]>>] \o PlanHandlesWith(a + 1, b, lens)

RECURSIVE PlanRangesWith(_, _)
PlanRangesWith(svcs, lens) ==
    IF svcs = <<>> THEN <<>>
    ELSE PlanHandlesWith(svcs[1].start, svcs[1].end, lens) \o PlanRangesWith(Tail(svcs), lens)

\* what the device makes of a zero-filled attempt of nominal length len
ZeroFilled(len) == prefix \o SubSeq("0000000000000000", 1, Max0(len - Len(prefix)))

OutcomeOf(hstr, len) ==
    LET answer == Respond(ZeroFilled(len))
        ok == answer.code = 0 /\ HasWrittenMarker(answer)
    IN  [ok |-> ok,
         record |-> [handle |-> hstr, length |-> len,
                     exit |-> IF ok THEN 0 ELSE answer.code,
                     readback |-> IF ok THEN Some(Strip(dev.read.out)) ELSE None]]

\* C20: without random mode, a fuzz run that completes with no quit key and no
\* interrupt has issued the writes, left the results and reached the counts
\* that the other reporting variant's loop gives for the same ranges, options
\* and device: the same (handle, length, payload) in the same order, the same
\* records, the same numbers of successes and failures; whatever the run count,
\* unset, 0 and negative included.
C20_VariantsAgree ==
    (Completed /\ ~read_only /\ ~random_mode) =>
        LET other == PlanRangesWith(services, OtherVariantLengths)
            ws == Writes
            expected == [i \in 1..Len(other) |-> OutcomeOf(other[i][1], other[i][2])]
        IN
        /\ Len(ws) = Len(other)
        /\ Len(results) = Len(other)
        /\ \A i \in 1..Len(other) :
              /\ ws[i].handle = other[i][1]
              /\ ws[i].value = ZeroFilled(other[i][2])
              /\ results[i] = expected[i].record
        /\ success_count = Cardinality({i \in 1..Len(other) : expected[i].ok})
        /\ fail_count = Cardinality({i \in 1..Len(other) : ~expected[i].ok})

C20_Witness ==
    /\ Completed /\ ~read_only /\ ~random_mode
    /\ Mode = "tui"
    /\ runs = Some(0) /\ chars_to_write = 2
    /\ Len(Writes) = 2
    /\ Writes[1].value = "0" /\ Writes[2].value = "00"
    /\ success_count = 1 /\ fail_count = 1
====
